---------------------------- MODULE Spec2Model ----------------------------
(***************************************************************************)
(* Retrieval pipeline of the KIChat backend: TextChunker (rag/chunking.py), *)
(* VectorStoreService (rag/vectorstore.py) and the chat orchestrator        *)
(* (routes/chat.py).                                                        *)
(*                                                                          *)
(* Three specifications share the variables of this module:                 *)
(*   SpecChunk  one call of TextChunker.chunk, one loop iteration per step  *)
(*   SpecIndex  the vector index under add_text / search / list / delete    *)
(*   SpecChat   one chat_completions request                                *)
(* A specification leaves the variables of the other two at their initial   *)
(* value.                                                                   *)
(***************************************************************************)
EXTENDS Integers, Sequences, FiniteSets, TLC

VARIABLES
    \* ---- TextChunker.chunk ----
    cfg,        \* settings read in TextChunker.__init__: chunk_size, overlap
    input,      \* the argument `text` of chunk()
    text,       \* the local `text` after text.strip()
    cpc,        \* position in chunk(): "call", "loop", "done"
    start,      \* the local `start`
    chunks,     \* the local `chunks`
    windows,    \* history: every candidate the call cut (see Window)
    iter,       \* number of loop iterations taken (bounded by MaxIter)
    \* ---- VectorStoreService / the Qdrant collection ----
    index,      \* the collection: payload -> number of points carrying it
    del,        \* the delete_document call in flight, or NoCall
    last,       \* the VectorStoreService call that returned last, or NoCall
    ops,        \* number of calls started (bounded by MaxOps)
    \* ---- chat_completions ----
    body,       \* the ChatCompletionRequest
    hpc,        \* position in the handler
    user_message,
    search,     \* what vectorstore.search did: NoCall, raised, or its results
    context,    \* the local `context`, a string as a sequence of pieces
    sources,    \* the local `sources`
    llm_payload,
    llm_calls,  \* the payloads POSTed to the generation backend so far
    backend,    \* what the generation backend did with the POST, or NoCall
    resp,       \* what the caller has received: status and body
    \* ---- upload_document / add_transcript / add_text ----
    store,      \* the collection by point: point id -> payload
    ups         \* per ingestion call: its position and locals

chunkVars == <<cfg, input, text, cpc, start, chunks, windows, iter>>
indexVars == <<index, del, last, ops>>
chatVars == <<body, hpc, user_message, search, context, sources,
              llm_payload, llm_calls, backend, resp>>

uploadVars == <<store, ups>>

vars == <<chunkVars, indexVars, chatVars, uploadVars>>

-----------------------------------------------------------------------------
(* Generic helpers *)

Max(S) == CHOOSE x \in S : \A y \in S : y <= x
Min(S) == CHOOSE x \in S : \A y \in S : x <= y

\* Python slice s[a:b] for 0 <= a, with b clamped to len(s).
Slice(s, a, b) == SubSeq(s, a + 1, IF b > Len(s) THEN Len(s) ELSE b)

-----------------------------------------------------------------------------
(* Characters and strings.  A string is a sequence of one-character strings. *)

Whitespace == {" ", "\n"}

\* str.strip(): drop leading and trailing whitespace.
StripLo(s) ==
    IF \A i \in 1..Len(s) : s[i] \in Whitespace THEN Len(s)
    ELSE Min({i \in 1..Len(s) : s[i] \notin Whitespace}) - 1
StripHi(s) ==
    IF \A i \in 1..Len(s) : s[i] \in Whitespace THEN Len(s)
    ELSE Max({i \in 1..Len(s) : s[i] \notin Whitespace})
MutStrip(s) == s
Strip(s) == Slice(s, StripLo(s), StripHi(s))

\* str.rfind(sep, lo, hi): highest index i with lo <= i, i + len(sep) <= hi
\* and s[i:i+len(sep)] == sep; -1 when there is none.
RFind(s, sep, lo, hi) ==
    LET h == IF hi > Len(s) THEN Len(s) ELSE hi
        found == {i \in lo..(h - Len(sep)) :
                     \A j \in 1..Len(sep) : s[i + j] = sep[j]}
    IN  IF found = {} THEN -1 ELSE Max(found)

-----------------------------------------------------------------------------
(* TextChunker *)

\* self._separators, in priority order.
Separators ==
    << <<"\n", "\n", "\n">>,
       <<"\n", "\n">>,
       <<"\n">>,
       <<".", " ">>,
       <<"!", " ">>,
       <<"?", " ">>,
       <<";", " ">>,
       <<",", " ">>,
       <<" ">> >>

\* The minimum chunk length of `len(chunk) >= 50`.
MinChunkLen == 50

\* `if chunk and len(chunk) >= 50`
MutKeepChunk(c) == c # <<>>
KeepChunk(c) == c # <<>> /\ Len(c) >= MinChunkLen

\* `return [text]` of the short path (line 48).
MutShortResult(t) == IF KeepChunk(t) THEN <<t>> ELSE <<>>
ShortResult(t) == <<t>>

\* The for-loop over the separators: the first separator (from index k on)
\* whose right-most occurrence in [st, en) begins after st decides the split;
\* without one the split is the raw boundary en.
RECURSIVE SplitFrom(_, _, _, _)
SplitFrom(s, st, en, k) ==
    IF k > Len(Separators) THEN en
    ELSE LET pos == RFind(s, Separators[k], st, en)
         IN  IF pos > st THEN pos + Len(Separators[k])
             ELSE SplitFrom(s, st, en, k + 1)

MutBestSplit(s, st, en) == en
BestSplit(s, st, en) == SplitFrom(s, st, en, 1)

\* `start = best_split - overlap; if start < 0: start = 0`
MutNextStart(split, overlap) == split + 1
NextStart(split, overlap) ==
    IF split - overlap < 0 THEN 0 ELSE split - overlap

\* chunk() as a function of its input: the loop of lines 53-80 from
\* window start st on, acc being `chunks` so far.  (It is applied only to
\* texts on which the loop ends.)
RECURSIVE ChunkLoop(_, _, _, _)
ChunkLoop(t, c, st, acc) ==
    IF st >= Len(t) THEN acc
    ELSE IF st + c.chunk_size >= Len(t)
         THEN LET ch == Strip(Slice(t, st, Len(t)))
              IN  IF KeepChunk(ch) THEN Append(acc, ch) ELSE acc
         ELSE LET best_split == BestSplit(t, st, st + c.chunk_size)
                  ch == Strip(Slice(t, st, best_split))
              IN  ChunkLoop(t, c, NextStart(best_split, c.overlap),
                            IF KeepChunk(ch) THEN Append(acc, ch) ELSE acc)

ChunkOf(s, c) ==
    IF s = <<>> \/ Strip(s) = <<>> THEN <<>>
    ELSE IF Len(Strip(s)) <= c.chunk_size THEN ShortResult(Strip(s))
    ELSE ChunkLoop(Strip(s), c, 0, <<>>)

\* History record of one candidate `text[from:to].strip()`: the slice, the
\* span [lo, hi) of `s` that survives the strip, and whether it was appended.
Window(s, from, to, kept) ==
    [from |-> from, to |-> to,
     lo |-> from + StripLo(Slice(s, from, to)),
     hi |-> from + StripHi(Slice(s, from, to)),
     kept |-> kept]

-----------------------------------------------------------------------------
(* The Qdrant collection.  Points get fresh uuid4 ids and are never          *)
(* addressed by id, so the collection is the bag of their payloads.          *)

RECURSIVE SumOver(_, _)
SumOver(f, S) ==
    IF S = {} THEN 0
    ELSE LET x == CHOOSE y \in S : TRUE IN f[x] + SumOver(f, S \ {x})

\* Number of points in the collection.
TotalPoints(idx) == SumOver(idx, DOMAIN idx)

\* Filter(must=[FieldCondition(key=k, match=MatchValue(value=v)), ...]):
\* the payload has every key of the filter with the filter's value.
MutMatches(p, filter) ==
    \E k \in DOMAIN filter : k \in DOMAIN p /\ p[k] = filter[k]
Matches(p, filter) ==
    \A k \in DOMAIN filter : k \in DOMAIN p /\ p[k] = filter[k]

Matching(idx, filter) == {p \in DOMAIN idx : Matches(p, filter)}

\* client.upsert of n new points with payload p.
Upsert(idx, p, n) ==
    IF n = 0 THEN idx
    ELSE [q \in DOMAIN idx \cup {p} |->
             (IF q \in DOMAIN idx THEN idx[q] ELSE 0) + (IF q = p THEN n ELSE 0)]

\* client.delete with a filter as points_selector: every match goes.
DeleteByFilter(idx, filter) ==
    [p \in DOMAIN idx \ Matching(idx, filter) |-> idx[p]]

\* The scans a scroll or a query can make: the distinct payloads in any
\* order, each standing for its idx[p] points (point ids are random).
RECURSIVE Orders(_)
Orders(S) ==
    IF S = {} THEN { <<>> }
    ELSE UNION { { <<x>> \o o : o \in Orders(S \ {x}) } : x \in S }

\* Number of points of the scan `ord` that precede its k-th payload.
RECURSIVE Before(_, _, _)
Before(idx, ord, k) ==
    IF k <= 1 THEN 0 ELSE Before(idx, ord, k - 1) + idx[ord[k - 1]]

\* How many points of the k-th payload of the scan fall at the positions
\* off+1 .. off+limit.
InBatch(idx, ord, k, off, limit) ==
    LET lo == Max({Before(idx, ord, k), off})
        hi == Min({Before(idx, ord, k) + idx[ord[k]], off + limit})
    IN  IF hi > lo THEN hi - lo ELSE 0

\* client.scroll(limit, offset) on a collection of `total` points: the next
\* offset, None when no point lies past the batch.
None == -1
MutNextOffset(total, off, limit) == None
NextOffset(total, off, limit) ==
    IF off + limit < total THEN off + limit ELSE None

-----------------------------------------------------------------------------
(* VectorStoreService *)

\* `limit=10000` of the counting scroll in delete_document.
ScrollLimit == 10000
\* `batch_size = 100` of list_documents.
BatchSize == 100

\* payload={"text": chunk_text, **metadata}
Payload(chunk_text, metadata) ==
    [k \in DOMAIN metadata \cup {"text"} |->
        IF k \in DOMAIN metadata THEN metadata[k] ELSE chunk_text]

\* add_text, lines 111-128: one point per chunk, one upsert.
RECURSIVE UpsertChunks(_, _, _)
UpsertChunks(idx, cs, metadata) ==
    IF cs = <<>> THEN idx
    ELSE UpsertChunks(Upsert(idx, Payload(Head(cs), metadata), 1),
                      Tail(cs), metadata)

\* The filter of delete_document: document_id == id.
MutDocFilter(id) == [source |-> id]
DocFilter(id) == [document_id |-> id]

\* len(results[0]) of the counting scroll: at most `limit` points come back.
CountScan(idx, id) ==
    Min({SumOver(idx, Matching(idx, DocFilter(id))), ScrollLimit})

\* payload.get(key, default)
Get(p, k, default) == IF k \in DOMAIN p THEN p[k] ELSE default

\* list_documents, lines 217-229, for m points of payload p in a batch.
Summary(p) ==
    [document_id   |-> Get(p, "document_id", "unknown"),
     source        |-> Get(p, "source", ""),
     document_type |-> Get(p, "document_type", ""),
     patient_id    |-> Get(p, "patient_id", ""),
     case_number   |-> Get(p, "case_number", ""),
     total_pages   |-> Get(p, "total_pages", 0),
     chunks        |-> 0]

Aggregate(documents, p, m) ==
    LET id == Get(p, "document_id", "unknown")
        seen == IF \E i \in 1..Len(documents) : documents[i].document_id = id
                THEN documents ELSE Append(documents, Summary(p))
    IN  IF m = 0 THEN documents
        ELSE [i \in 1..Len(seen) |->
                 IF seen[i].document_id = id
                 THEN [seen[i] EXCEPT !.chunks = @ + m] ELSE seen[i]]

\* The offsets the while-loop of list_documents scrolls from: 0, then the
\* next offset each scroll returns, up to the first scroll that returns None.
ScrollOffsets(idx) ==
    LET total == TotalPoints(idx)
        all == {b * BatchSize : b \in 0..(total \div BatchSize)}
        last_off == Min({o \in all : NextOffset(total, o, BatchSize) = None})
    IN  {off \in all : off <= last_off}

\* Number of points the scrolls of list_documents cover.
Scrolled(idx) == Cardinality(ScrollOffsets(idx)) * BatchSize

\* The for-loop over the points of the batches scrolled: the batches are
\* consecutive from offset 0, so together they are one batch of their
\* joint size; the payloads of the scan are taken from the k-th on.
RECURSIVE AggregateScan(_, _, _, _, _)
AggregateScan(documents, idx, ord, k, scrolled) ==
    IF k > Len(ord) THEN documents
    ELSE AggregateScan(
             Aggregate(documents, ord[k], InBatch(idx, ord, k, 0, scrolled)),
             idx, ord, k + 1, scrolled)

ListDocuments(idx, ord) == AggregateScan(<<>>, idx, ord, 1, Scrolled(idx))

\* search, lines 182-195: a scored point as {text, score, metadata}.
Formatted(p, score) ==
    [text |-> Get(p, "text", <<>>),
     score |-> score,
     metadata |-> [k \in DOMAIN p \ {"text"} |-> p[k]]]

\* query_points(limit=top_k, query_filter): the first top_k points of the
\* scan `ord` of the matching payloads, which the engine orders by score.
RECURSIVE TopK(_, _, _, _, _)
TopK(idx, ord, score, k, top_k) ==
    IF k > Len(ord) \/ top_k <= 0 THEN <<>>
    ELSE LET n == Min({idx[ord[k]], top_k})
         IN  [i \in 1..n |-> Formatted(ord[k], score[ord[k]])]
             \o TopK(idx, ord, score, k + 1, top_k - n)

\* `if filters:` -- None and {} both mean no filter.
NoFilter == [k \in {} |-> ""]

\* The cosine similarity (in thousandths) the engine reports between the
\* embedded query and a stored text: the embedding model's, tabulated for
\* the queries of the model.
Queries == {"qa", "qb"}
Similarity(query, chunk_text) ==
    IF query = "qa"
    THEN (IF Len(chunk_text) < MinChunkLen THEN 854 ELSE 700)
    ELSE (IF Len(chunk_text) < MinChunkLen THEN 404 ELSE 550 + 2 * Len(chunk_text))

\* The scans of the payloads S in descending score order, equal scores in
\* any order.
RECURSIVE ByScore(_, _)
ByScore(S, score) ==
    IF S = {} THEN { <<>> }
    ELSE UNION { { <<x>> \o o : o \in ByScore(S \ {x}, score) } :
                   x \in {p \in S : \A q \in S : score[p] >= score[q]} }

\* Every result list search(query, top_k, filters) can return on idx.
SearchResults(idx, query, top_k, filters) ==
    LET M == Matching(idx, filters)
        score == [p \in M |-> Similarity(query, Get(p, "text", <<>>))]
    IN  { TopK(idx, ord, score, 1, top_k) : ord \in ByScore(M, score) }

-----------------------------------------------------------------------------
(* Inputs of the chunker specification *)

MaxSegs == 3        \* segments per input text
MaxIter == 4        \* loop iterations followed per call

Run(k) == [i \in 1..k |-> "a"]

RunLens == {0, 2, 52}
SegSeps == { <<>>, <<" ">>, <<".", " ">>, <<"\n", "\n", "\n">> }

RECURSIVE TextsOf(_)
TextsOf(n) ==
    IF n = 0 THEN { <<>> }
    ELSE {x \o Run(k) \o s : x \in TextsOf(n - 1), k \in RunLens, s \in SegSeps}

Texts == TextsOf(MaxSegs)

\* rag_chunk_size / rag_chunk_overlap settings tried, all with
\* 0 <= overlap < chunk_size.
Configs == { [chunk_size |-> 60, overlap |-> 0],
             [chunk_size |-> 60, overlap |-> 8] }

-----------------------------------------------------------------------------
(* TextChunker.chunk, one step per loop iteration *)

NoCall == [op |-> "none"]
EmptyIndex == [p \in {} |-> 0]

\* The variables of the vector index while another specification runs.
IndexIdle ==
    /\ index = EmptyIndex
    /\ del = NoCall
    /\ last = NoCall
    /\ ops = 0

\* The variables of the chat handler while another specification runs.
ChatIdle ==
    /\ body = NoCall
    /\ hpc = "idle"
    /\ user_message = <<>>
    /\ search = NoCall
    /\ context = <<>>
    /\ sources = <<>>
    /\ llm_payload = NoCall
    /\ llm_calls = <<>>
    /\ backend = NoCall
    /\ resp = NoCall

\* The variables of the ingestion calls while another specification runs.
UploadIdle ==
    /\ store = << >>
    /\ ups = << >>

InitChunk ==
    /\ IndexIdle
    /\ ChatIdle
    /\ cfg \in Configs
    /\ input \in Texts
    /\ text = <<>>
    /\ cpc = "call"
    /\ start = 0
    /\ chunks = <<>>
    /\ windows = <<>>
    /\ iter = 0
    /\ UploadIdle

\* Lines 41-51: blank input, short input, or entry into the loop.
ChunkCall ==
    /\ cpc = "call"
    /\ LET t == Strip(input) IN
       IF input = <<>> \/ t = <<>>
       THEN /\ chunks' = <<>>
            /\ cpc' = "done"
            /\ UNCHANGED text
       ELSE /\ text' = t
            /\ IF Len(t) <= cfg.chunk_size
               THEN /\ chunks' = ShortResult(t)
                    /\ cpc' = "done"
               ELSE /\ chunks' = <<>>
                    /\ cpc' = "loop"
    /\ start' = 0
    /\ windows' = IF Strip(input) # <<>> /\ Len(Strip(input)) <= cfg.chunk_size
                  THEN <<Window(Strip(input), 0, Len(Strip(input)),
                                ShortResult(Strip(input)) # <<>>)>>
                  ELSE <<>>
    /\ UNCHANGED <<cfg, input, iter, indexVars, chatVars, uploadVars>>

\* Lines 57-62: the last chunk.
ChunkFinal ==
    /\ cpc = "loop"
    /\ start < Len(text)
    /\ start + cfg.chunk_size >= Len(text)
    /\ LET c == Strip(Slice(text, start, Len(text))) IN
       /\ chunks' = IF KeepChunk(c) THEN Append(chunks, c) ELSE chunks
       /\ windows' = Append(windows,
                            Window(text, start, Len(text), KeepChunk(c)))
    /\ cpc' = "done"
    /\ UNCHANGED <<cfg, input, text, start, iter, indexVars, chatVars, uploadVars>>

\* Lines 64-80: a non-final window.
ChunkSplit ==
    /\ cpc = "loop"
    /\ iter < MaxIter
    /\ start < Len(text)
    /\ start + cfg.chunk_size < Len(text)
    /\ LET best_split == BestSplit(text, start, start + cfg.chunk_size)
           c == Strip(Slice(text, start, best_split))
       IN  /\ chunks' = IF KeepChunk(c) THEN Append(chunks, c) ELSE chunks
           /\ windows' = Append(windows,
                                Window(text, start, best_split, KeepChunk(c)))
           /\ start' = NextStart(best_split, cfg.overlap)
    /\ iter' = iter + 1
    /\ UNCHANGED <<cfg, input, text, cpc, indexVars, chatVars, uploadVars>>

NextChunk == ChunkCall \/ ChunkFinal \/ ChunkSplit

SpecChunk == InitChunk /\ [][NextChunk]_vars

-----------------------------------------------------------------------------
(* Properties of TextChunker.chunk *)

\* The while condition `start < len(text)` never ends the loop: every
\* start the loop computes lies below len(text).
StartInRange == cpc = "loop" => start < Len(text)

\* Position p (0-based) of `text` lies in the stripped span of window w.
InWindow(p, w) == w.lo <= p /\ p < w.hi

\* The positions of `text` that hold a non-whitespace character.
ContentPositions == {p \in 0..(Len(text) - 1) : text[p + 1] \notin Whitespace}

LongInput == Len(input) > cfg.chunk_size

\* C1: with 0 <= overlap < chunk_size the window start strictly increases
\* from one loop iteration to the next.
C1_StartStrictlyIncreases ==
    [][(cpc = "loop" /\ cpc' = "loop") => start' > start]_vars

\* C2 as claimed: once chunk() has returned for a text longer than
\* chunk_size, every non-whitespace position of trim(t) lies inside a
\* returned chunk.
C2_AllContentReturned ==
    (cpc = "done" /\ LongInput) =>
        \A p \in ContentPositions :
            \E i \in 1..Len(windows) : windows[i].kept /\ InWindow(p, windows[i])

\* C2 as amended: once chunk() has returned for a text longer than
\* chunk_size, every non-whitespace position of trim(t) lies inside a
\* candidate the loop cut, and a candidate is missing from the result only
\* when its trimmed length is below the 50-character floor.
C2_ContentReturnedOrShortDropped ==
    (cpc = "done" /\ LongInput) =>
        /\ \A p \in ContentPositions :
              \E i \in 1..Len(windows) : InWindow(p, windows[i])
        /\ \A i \in 1..Len(windows) :
              ~windows[i].kept =>
                  windows[i].hi - windows[i].lo < MinChunkLen
        /\ Len(chunks) = Cardinality({i \in 1..Len(windows) : windows[i].kept})

\* C2 witness: a long text returned in several chunks with one candidate
\* dropped for being short.
C2_Witness ==
    /\ cpc = "done" /\ LongInput
    /\ Len(chunks) >= 2
    /\ \E i \in 1..Len(windows) : ~windows[i].kept

\* C3: for a text longer than chunk_size every returned chunk is non-empty
\* and trimmed, and a chunk shorter than 50 characters is returned only as
\* the only chunk of the result.
C3_MinimumLengthFloor ==
    (cpc = "done" /\ LongInput) =>
        \A i \in 1..Len(chunks) :
            /\ chunks[i] # <<>>
            /\ Strip(chunks[i]) = chunks[i]
            /\ Len(chunks[i]) >= MinChunkLen \/ Len(chunks) = 1

\* C3 witness: the loop returned two or more chunks and dropped a short
\* candidate.
C3_Witness ==
    /\ cpc = "done" /\ LongInput /\ iter >= 1
    /\ Len(chunks) >= 2
    /\ \E i \in 1..Len(windows) :
          ~windows[i].kept /\ windows[i].hi > windows[i].lo

BlankInputReturned ==
    cpc = "done" /\ input # <<>> /\ Strip(input) = <<>> /\ chunks = <<>>

-----------------------------------------------------------------------------
(* Inputs of the index specification *)

MaxOps == 2         \* VectorStoreService calls per behaviour
MaxPayloads == 4    \* distinct payloads the collection holds

DocIds == {"d1", "d2"}
Pages == {1, 2}
TopKs == {1, 5}

\* The metadata upload_document builds (documents.py, lines 86-93 and 102)
\* for the upload that drew document id d.
UploadMeta(d, page) ==
    [source        |-> IF d = "d1" THEN "a.pdf" ELSE "b.pdf",
     document_id   |-> d,
     document_type |-> "gerichtsakte",
     patient_id    |-> IF d = "d1" THEN "p1" ELSE "",
     case_number   |-> "",
     total_pages   |-> 2,
     page          |-> page]

\* Page texts: blank, one short chunk, two chunks.
IndexTexts ==
    { <<" ">>, Run(2), Run(52) \o <<".", " ">> \o Run(52) }

IndexConfig == [chunk_size |-> 60, overlap |-> 8]

\* self._chunker.chunk(text) for each page text: the chunker's settings are
\* read once, when the service is constructed.
IndexChunks == [t \in IndexTexts |-> ChunkOf(t, IndexConfig)]

\* Points a document holds when the behaviour starts: none, two scroll
\* batches, or more than the counting scan returns.
InitCounts == {0, BatchSize + 50, ScrollLimit + 1}

IndexFilters ==
    { NoFilter,
      [document_id |-> "d1"],
      [document_type |-> "gerichtsakte", patient_id |-> "p1"] }

\* The variables of the chunker while another specification runs.
ChunkIdle ==
    /\ cfg = IndexConfig
    /\ input = <<>>
    /\ text = <<>>
    /\ cpc = "idle"
    /\ start = 0
    /\ chunks = <<>>
    /\ windows = <<>>
    /\ iter = 0

-----------------------------------------------------------------------------
(* The vector index under VectorStoreService calls.  Each await on the      *)
(* Qdrant client is a step; delete_document has two.                         *)

InitIndex ==
    /\ ChunkIdle
    /\ ChatIdle
    /\ \E n \in [DocIds -> InitCounts] :
         index = [p \in {Payload(Run(2), UploadMeta(d, 1)) :
                            d \in {e \in DocIds : n[e] > 0}} |->
                     n[p.document_id]]
    /\ del = NoCall
    /\ last = NoCall
    /\ ops = 0
    /\ UploadIdle

\* A call that runs while delete_document is between its two awaits.
Interleave == IF del = NoCall THEN del ELSE [del EXCEPT !.concurrent = TRUE]

\* add_text(text, metadata), lines 97-130.
AddText(t, metadata) ==
    /\ ops < MaxOps
    /\ LET cs == IndexChunks[t] IN
       /\ Cardinality(DOMAIN UpsertChunks(index, cs, metadata)) <= MaxPayloads
       /\ index' = UpsertChunks(index, cs, metadata)
       /\ last' = [op |-> "add_text", document_id |-> metadata.document_id,
                   returned |-> Len(cs)]
       /\ del' = IF del # NoCall /\ del.id = metadata.document_id
                 THEN [Interleave EXCEPT !.added = @ + Len(cs)]
                 ELSE Interleave
    /\ ops' = ops + 1
    /\ UNCHANGED <<chunkVars, chatVars, uploadVars>>

\* delete_document(id), lines 239-253: the counting scroll.
DeleteCount(id) ==
    /\ ops < MaxOps
    /\ del = NoCall
    /\ del' = [op |-> "delete", id |-> id,
               count |-> CountScan(index, id),
               before |-> SumOver(index, Matching(index, [document_id |-> id])),
               concurrent |-> FALSE,
               added |-> 0]
    /\ ops' = ops + 1
    /\ UNCHANGED <<index, last, chunkVars, chatVars, uploadVars>>

\* delete_document, lines 255-267: the delete by filter and the return.
DeleteRemove ==
    /\ del # NoCall
    /\ index' = DeleteByFilter(index, DocFilter(del.id))
    /\ last' = [op |-> "delete", id |-> del.id,
                returned |-> del.count,
                before |-> del.before,
                removed |-> TotalPoints(index) - TotalPoints(index'),
                concurrent |-> del.concurrent,
                added |-> del.added]
    /\ del' = NoCall
    /\ UNCHANGED <<ops, chunkVars, chatVars, uploadVars>>

\* list_documents(), lines 200-235, on the scan order the scroll takes.
ListDocs ==
    /\ ops < MaxOps
    /\ LET scrolled == Scrolled(index) IN
       \E ord \in Orders(DOMAIN index) :
         last' = [op |-> "list", scan |-> ord,
                  documents |-> AggregateScan(<<>>, index, ord, 1, scrolled)]
    /\ del' = Interleave
    /\ ops' = ops + 1
    /\ UNCHANGED <<index, chunkVars, chatVars, uploadVars>>

\* search(query, top_k, filters), lines 148-195.
Search(query, top_k, filters) ==
    /\ ops < MaxOps
    /\ \E r \in SearchResults(index, query, top_k, filters) :
         last' = [op |-> "search", top_k |-> top_k, filters |-> filters,
                  results |-> r]
    /\ del' = Interleave
    /\ ops' = ops + 1
    /\ UNCHANGED <<index, chunkVars, chatVars, uploadVars>>

NextIndex ==
    \/ \E t \in IndexTexts, d \in DocIds, pg \in Pages :
          AddText(t, UploadMeta(d, pg))
    \/ \E id \in DocIds \cup {"d0"} : DeleteCount(id)
    \/ DeleteRemove
    \/ ListDocs
    \/ \E q \in Queries, k \in TopKs, f \in IndexFilters : Search(q, k, f)

SpecIndex == InitIndex /\ [][NextIndex]_vars

-----------------------------------------------------------------------------
(* Properties of the vector index *)

\* A delete_document call has just returned and nothing ran between its
\* counting scroll and its delete.
DeleteReturned == last.op = "delete" /\ ~last.concurrent

\* C5: after delete_document(id) returns, list_documents() has no entry
\* with document_id id, on any scan order, and search with the filter
\* {document_id: id} returns no result for any top_k.
C5_DeletionPostcondition ==
    DeleteReturned =>
        /\ \A ord \in Orders(DOMAIN index) :
             \A i \in 1..Len(ListDocuments(index, ord)) :
                 ListDocuments(index, ord)[i].document_id # last.id
        /\ \A q \in Queries, k \in TopKs :
             SearchResults(index, q, k, [document_id |-> last.id]) = { <<>> }

\* C5 witness: a delete that removed points of one document and left the
\* points of another in the collection.
C5_Witness ==
    /\ DeleteReturned
    /\ last.removed > 0
    /\ index # EmptyIndex

\* C6: the integer delete_document(id) returns is the number of points
\* stored under id right before the call, which is the number it removes.
C6_ReturnsPreDeletionCount ==
    DeleteReturned =>
        /\ last.returned = last.before
        /\ last.returned = last.removed

-----------------------------------------------------------------------------
(* routes/chat.py.  A string built by the handler is a sequence of pieces;   *)
(* the empty string is the empty sequence.  Scores are in thousandths.       *)

Lit(str) == [lit |-> str]

\* SYSTEM_PROMPT.format(context=c): the prompt text around the context.
SystemContent(c) ==
    <<Lit("SYSTEM_PROMPT: ... KONTEXT AUS WISSENSDATENBANK:\n")>> \o c \o <<Lit("\n")>>

\* Settings: rag_similarity_threshold = 0.7, rag_top_k = 5,
\* llm_temperature = 0.3 (in tenths), llm_max_tokens = 4096.
SimilarityThreshold == 700
RagTopK == 5
LlmTemperature == 3
LlmMaxTokens == 4096

\* "[Wissensdatenbank nicht verfuegbar]" and
\* "[Keine relevanten Dokumente gefunden]".
UnavailableMarker == <<Lit("[Wissensdatenbank nicht verfuegbar]")>>
NoDocumentsMarker == <<Lit("[Keine relevanten Dokumente gefunden]")>>

\* Lines 93-97: the content of the last message with role "user", "" if none.
MutLastUserMessage(messages) ==
    LET users == {i \in 1..Len(messages) : messages[i].role = "user"}
    IN  IF users = {} THEN <<>> ELSE messages[Min(users)].content
LastUserMessage(messages) ==
    LET users == {i \in 1..Len(messages) : messages[i].role = "user"}
    IN  IF users = {} THEN <<>> ELSE messages[Max(users)].content

\* f"{score:.2f}" and f"{score:.0%}": the score rounded to hundredths,
\* which is also its percentage rounded to a whole number.
Hundredths(score) == (score + 5) \div 10

\* `score >= settings.rag_similarity_threshold`
MutRelevant(result) == result.score > SimilarityThreshold
Relevant(result) == result.score >= SimilarityThreshold

\* Lines 114-119: one context part.
MutContextPart(i, result) ==
    [quelle    |-> i + 1,
     source    |-> Get(result.metadata, "source", "Unbekannt"),
     page      |-> Get(result.metadata, "page", "?"),
     relevanz  |-> Hundredths(result.score),
     text      |-> result.text]
ContextPart(i, result) ==
    [quelle    |-> i,
     source    |-> Get(result.metadata, "source", "Unbekannt"),
     page      |-> Get(result.metadata, "page", "?"),
     relevanz  |-> Hundredths(result.score),
     text      |-> result.text]

\* Line 120: one citation.
Citation(result) ==
    [source |-> Get(result.metadata, "source", "Unbekannt"),
     page   |-> Get(result.metadata, "page", "?"),
     score  |-> result.score]

\* The for-loop of lines 111-120 from the i-th result on: context_parts.
RECURSIVE ContextParts(_, _)
ContextParts(results, i) ==
    IF i > Len(results) THEN <<>>
    ELSE (IF Relevant(results[i]) THEN <<ContextPart(i, results[i])>> ELSE <<>>)
             \o ContextParts(results, i + 1)

\* The same loop: sources.
RECURSIVE Citations(_, _)
Citations(results, i) ==
    IF i > Len(results) THEN <<>>
    ELSE (IF Relevant(results[i]) THEN <<Citation(results[i])>> ELSE <<>>)
             \o Citations(results, i + 1)

\* "\n\n---\n\n".join(context_parts)
RECURSIVE Join(_)
Join(parts) ==
    IF Len(parts) <= 1 THEN parts
    ELSE <<Head(parts), Lit("\n\n---\n\n")>> \o Join(Tail(parts))

\* Lines 127-129: the context after `except Exception`.
MutContextOnSearchError == <<>>
ContextOnSearchError == UnavailableMarker

\* Line 133: `context if context else "[Keine relevanten Dokumente gefunden]"`
MutContextOrMarker(c) == c
ContextOrMarker(c) == IF c # <<>> THEN c ELSE NoDocumentsMarker

\* Lines 137-140: the messages for the backend.
MutLlmMessages(messages, system_content) ==
    <<[role |-> "system", content |-> system_content]>> \o messages
LlmMessages(messages, system_content) ==
    <<[role |-> "system", content |-> system_content]>>
        \o SelectSeq(messages, LAMBDA m : m.role # "system")

\* `a or b` on an Optional number: b when a is None or 0.
OrDefault(a, b) == IF a = None \/ a = 0 THEN b ELSE a

\* Lines 143-149: llm_payload.
LlmPayload(b, c) ==
    [messages    |-> LlmMessages(b.messages, SystemContent(ContextOrMarker(c))),
     temperature |-> OrDefault(b.temperature, LlmTemperature),
     max_tokens  |-> OrDefault(b.max_tokens, LlmMaxTokens),
     stream      |-> b.stream]

\* Lines 200-202: source_text.
SourceLine(src) ==
    [source |-> src.source, seite |-> src.page, relevanz |-> Hundredths(src.score)]
SourceText(srcs) ==
    <<Lit("\n\n---\n**Quellen:**\n")>> \o [i \in 1..Len(srcs) |-> SourceLine(srcs[i])]

\* Lines 199-205: the result with the sources appended to the first choice.
MutAttributeSources(result, srcs) ==
    IF result.choices # <<>>
    THEN [result EXCEPT !.choices[1].message.content = @ \o SourceText(srcs)]
    ELSE result
AttributeSources(result, srcs) ==
    IF srcs # <<>> /\ result.choices # <<>>
    THEN [result EXCEPT !.choices[1].message.content = @ \o SourceText(srcs)]
    ELSE result

\* Line 178: line.startswith("data: ")
DataLines == {"data: {chunk}", "data: [DONE]"}
StartsWithData(line) == line \in DataLines

\* Lines 177-181: the events yielded for the backend's lines.
RECURSIVE Relay(_)
Relay(lines) ==
    IF lines = <<>> THEN <<>>
    ELSE (IF StartsWithData(Head(lines)) THEN <<[event |-> Head(lines)]>> ELSE <<>>)
             \o Relay(Tail(lines))

\* Line 182: yield "data: [DONE]\n\n"
DoneEvent == [event |-> "data: [DONE]"]

-----------------------------------------------------------------------------
(* Inputs of the chat specification *)

MaxMsgs == 2        \* messages per request
MaxResults == 2     \* results vectorstore.search returns (at most rag_top_k)

RECURSIVE SeqsUpTo(_, _)
SeqsUpTo(S, n) ==
    IF n = 0 THEN { <<>> }
    ELSE SeqsUpTo(S, n - 1)
            \cup {Append(x, e) : x \in {y \in SeqsUpTo(S, n - 1) : Len(y) = n - 1},
                                 e \in S}

ChatMessages ==
    { [role |-> "system",    content |-> <<Lit("regeln")>>],
      [role |-> "user",      content |-> <<Lit("frage")>>],
      [role |-> "user",      content |-> <<>>],
      [role |-> "assistant", content |-> <<Lit("antwort")>>] }

Bodies ==
    [messages    : SeqsUpTo(ChatMessages, MaxMsgs),
     temperature : {None, 0, 7},
     max_tokens  : {None, 0, 256},
     stream      : BOOLEAN]

\* What vectorstore.search can return: at most rag_top_k results in
\* descending score order.
ResultScores == {854, 700, 698, 604}
SearchHit(score) ==
    [text |-> <<Lit("chunk")>>, score |-> score,
     metadata |-> [source |-> "a.pdf", page |-> (score % 3) + 1,
                   document_id |-> "d1"]]
ResultLists ==
    { [i \in 1..Len(sc) |-> SearchHit(sc[i])] :
        sc \in { x \in SeqsUpTo(ResultScores, Min({MaxResults, RagTopK})) :
                   \A i \in 1..(Len(x) - 1) : x[i] >= x[i + 1] } }

\* What the POST to {llm_base_url}/chat/completions can do.
BackendAnswer == <<Lit("antwort")>>
BatchedOutcomes ==
    { [kind |-> "connect_error"],
      [kind |-> "status_error"],
      [kind |-> "ok", result |-> [choices |-> <<>>]],
      [kind |-> "ok",
       result |-> [choices |-> <<[message |-> [role |-> "assistant",
                                                content |-> BackendAnswer]]>>]] }

StreamBodies ==
    { <<>>,
      <<"data: {chunk}", "", "data: {chunk}", "data: [DONE]">>,
      <<": ping", "data: {chunk}">> }
StreamOutcomes ==
    { [kind |-> "connect_error"],
      [kind |-> "response", status |-> 500, lines |-> <<"{error}">>,
       broken |-> FALSE] }
        \cup { [kind |-> "response", status |-> 200, lines |-> l, broken |-> b] :
                 l \in StreamBodies, b \in BOOLEAN }

-----------------------------------------------------------------------------
(* chat_completions, one step per await *)

InitChat ==
    /\ ChunkIdle
    /\ IndexIdle
    /\ body \in Bodies
    /\ hpc = "extract"
    /\ user_message = <<>>
    /\ search = NoCall
    /\ context = <<>>
    /\ sources = <<>>
    /\ llm_payload = NoCall
    /\ llm_calls = <<>>
    /\ backend = NoCall
    /\ resp = NoCall
    /\ UploadIdle

\* Lines 92-100: ExtractQuery; HTTP 400 without a user message.
ChatExtract ==
    /\ hpc = "extract"
    /\ user_message' = LastUserMessage(body.messages)
    /\ IF user_message' = <<>>
       THEN hpc' = "done" /\ resp' = [status |-> 400]
       ELSE hpc' = "retrieve" /\ UNCHANGED resp
    /\ UNCHANGED <<body, search, context, sources, llm_payload, llm_calls,
                   backend, chunkVars, indexVars, uploadVars>>

\* Lines 102-151: vectorstore.search raised.
ChatRetrieveFailed ==
    /\ hpc = "retrieve"
    /\ search' = [op |-> "raised", query |-> user_message]
    /\ context' = ContextOnSearchError
    /\ sources' = <<>>
    /\ llm_payload' = LlmPayload(body, context')
    /\ hpc' = "generate"
    /\ UNCHANGED <<body, user_message, llm_calls, backend, resp,
                   chunkVars, indexVars, uploadVars>>

\* Lines 102-151: vectorstore.search returned `results`.
ChatRetrieve(results) ==
    /\ hpc = "retrieve"
    /\ search' = [op |-> "returned", query |-> user_message,
                  results |-> results]
    /\ IF results # <<>>
       THEN /\ context' = Join(ContextParts(results, 1))
            /\ sources' = Citations(results, 1)
       ELSE /\ context' = <<>>
            /\ sources' = <<>>
    /\ llm_payload' = LlmPayload(body, context')
    /\ hpc' = "generate"
    /\ UNCHANGED <<body, user_message, llm_calls, backend, resp,
                   chunkVars, indexVars, uploadVars>>

\* Lines 159-165 and _complete_llm_response, lines 185-205.
ChatComplete(outcome) ==
    /\ hpc = "generate"
    /\ ~body.stream
    /\ llm_calls' = Append(llm_calls, llm_payload)
    /\ backend' = outcome
    /\ resp' = IF outcome.kind = "ok"
               THEN [status |-> 200,
                     result |-> AttributeSources(outcome.result, sources)]
               ELSE [status |-> 502]
    /\ hpc' = "done"
    /\ UNCHANGED <<body, user_message, search, context, sources, llm_payload,
                   chunkVars, indexVars, uploadVars>>

\* Lines 154-158: the handler returns the StreamingResponse; its status
\* line is sent before the generator runs.
ChatReturnStream ==
    /\ hpc = "generate"
    /\ body.stream
    /\ resp' = [status |-> 200, events |-> <<>>, aborted |-> FALSE]
    /\ hpc' = "stream"
    /\ UNCHANGED <<body, user_message, search, context, sources, llm_payload,
                   llm_calls, backend, chunkVars, indexVars, uploadVars>>

\* _stream_llm_response, lines 168-182, run by the response already begun:
\* an exception in it ends the stream, the status stays.
ChatStream(outcome) ==
    /\ hpc = "stream"
    /\ llm_calls' = Append(llm_calls, llm_payload)
    /\ backend' = outcome
    /\ resp' = IF outcome.kind = "connect_error"
               THEN [resp EXCEPT !.aborted = TRUE]
               ELSE IF outcome.broken
               THEN [resp EXCEPT !.events = Relay(outcome.lines),
                                 !.aborted = TRUE]
               ELSE [resp EXCEPT !.events = Append(Relay(outcome.lines), DoneEvent)]
    /\ hpc' = "done"
    /\ UNCHANGED <<body, user_message, search, context, sources, llm_payload,
                   chunkVars, indexVars, uploadVars>>

NextChat ==
    \/ ChatExtract
    \/ ChatRetrieveFailed
    \/ \E results \in ResultLists : ChatRetrieve(results)
    \/ \E outcome \in BatchedOutcomes : ChatComplete(outcome)
    \/ ChatReturnStream
    \/ \E outcome \in StreamOutcomes : ChatStream(outcome)

SpecChat == InitChat /\ [][NextChat]_vars

-----------------------------------------------------------------------------
(* Properties of chat_completions *)

\* The context substituted into the system message of a forwarded payload.
ForwardedContext(payload) ==
    LET content == payload.messages[1].content
    IN  SubSeq(content, 2, Len(content) - 1)

\* The HTTP call to the generation backend failed.
BackendFailed(outcome) ==
    \/ outcome.kind \in {"connect_error", "status_error"}
    \/ outcome.kind = "response" /\ outcome.status >= 400

\* The results that passed the threshold, in result order.
KeptResults ==
    IF search.op = "returned" THEN SelectSeq(search.results, Relevant) ELSE <<>>

\* C7: when vectorstore.search raised for a request with a user message, the
\* handler has sent exactly one completion request when it is done, the system
\* message of that request carries the knowledge-base-unavailable marker as
\* its context, and the caller gets an error only if the backend call failed.
C7_RetrievalFailureDegrades ==
    /\ Len(llm_calls) <= 1
    /\ (hpc = "done" /\ search.op = "raised") =>
          /\ user_message # <<>>
          /\ Len(llm_calls) = 1
          /\ llm_calls[1].messages[1].role = "system"
          /\ ForwardedContext(llm_calls[1]) = UnavailableMarker
          /\ resp.status \in {200, 502}
          /\ resp.status = 502 => BackendFailed(backend)

C7_Witness ==
    /\ hpc = "done"
    /\ search.op = "raised"
    /\ ~body.stream
    /\ resp.status = 200
    /\ Len(llm_calls) = 1

\* C8: in batched and in streaming mode, when the HTTP call to the generation
\* backend failed (connection failure or error status), the caller of
\* chat_completions receives an HTTP 502 response.
C8_BackendFailureIs502 ==
    (hpc = "done" /\ backend # NoCall /\ BackendFailed(backend))
        => resp.status = 502

\* C9: in every request forwarded to the generation backend the substituted
\* context is non-empty; it is the no-relevant-documents marker when search
\* returned no result or no result with score >= threshold, and the
\* unavailable marker when search raised.
C9_ContextNeverSilentlyEmpty ==
    \A i \in 1..Len(llm_calls) :
        LET c == ForwardedContext(llm_calls[i])
        IN  /\ c # <<>>
            /\ search.op = "raised" => c = UnavailableMarker
            /\ (search.op = "returned" /\ KeptResults = <<>>)
                   => c = NoDocumentsMarker
            /\ (search.op = "returned" /\ KeptResults # <<>>)
                   => /\ c # NoDocumentsMarker
                      /\ c # UnavailableMarker

C9_Witness ==
    /\ Len(llm_calls) = 1
    /\ search.op = "returned"
    /\ search.results # <<>>
    /\ KeptResults = <<>>

\* C10: a batched response with a message ends with a Sources section of one
\* line per kept citation (source, page, relevance in percent, in citation
\* order) when at least one result passed the threshold, and is the backend's
\* content unchanged when none did; a streaming response consists of relayed
\* backend data lines and the final sentinel only.
C10_SourceAttribution ==
    /\ (hpc = "done" /\ ~body.stream /\ resp.status = 200
            /\ backend.result.choices # <<>>) =>
          LET content == resp.result.choices[1].message.content
              orig    == backend.result.choices[1].message.content
              kept    == KeptResults
          IN  IF kept # <<>>
              THEN /\ Len(content) = Len(orig) + 1 + Len(kept)
                   /\ SubSeq(content, 1, Len(orig)) = orig
                   /\ content[Len(orig) + 1] = Lit("\n\n---\n**Quellen:**\n")
                   /\ \A i \in 1..Len(kept) :
                         content[Len(orig) + 1 + i] =
                             [source   |-> kept[i].metadata.source,
                              seite    |-> kept[i].metadata.page,
                              relevanz |-> (kept[i].score + 5) \div 10]
              ELSE content = orig
    /\ (body.stream /\ resp # NoCall /\ resp.status = 200) =>
          \A i \in 1..Len(resp.events) :
              \/ resp.events[i] = DoneEvent
              \/ \E j \in 1..Len(backend.lines) :
                    resp.events[i] = [event |-> backend.lines[j]]

C10_Witness ==
    /\ hpc = "done"
    /\ ~body.stream
    /\ resp.status = 200
    /\ backend.result.choices # <<>>
    /\ Len(search.results) = 2
    /\ Len(KeptResults) = 1
    /\ Len(resp.result.choices[1].message.content) = Len(BackendAnswer) + 2

\* C20: the query handed to vectorstore.search is the content of the last
\* message with role "user", later messages of other roles being skipped;
\* a conversation without a message of role "user" ends with HTTP 400 and
\* neither a retrieval nor a generation call.
C20_ExtractQuery ==
    /\ search # NoCall =>
          \E i \in 1..Len(body.messages) :
              /\ body.messages[i].role = "user"
              /\ \A j \in (i + 1)..Len(body.messages) :
                    body.messages[j].role # "user"
              /\ search.query = body.messages[i].content
    /\ (hpc # "extract"
          /\ \A i \in 1..Len(body.messages) : body.messages[i].role # "user")
         => /\ hpc = "done"
            /\ resp = [status |-> 400]
            /\ search = NoCall
            /\ llm_calls = <<>>
            /\ backend = NoCall

\* C20 witness: a retrieval for a conversation whose user message is
\* followed by a message of another role.
C20_Witness ==
    /\ search # NoCall
    /\ Len(body.messages) = 2
    /\ body.messages[1].role = "user"
    /\ body.messages[2].role # "user"

-----------------------------------------------------------------------------
(* routes/documents.py upload_document, VectorStoreService.add_transcript    *)
(* and add_text, on the collection by point id.                              *)

Callers == {"u1", "u2"}     \* the ingestion calls of a behaviour


\* str(uuid.uuid4()): the n-th value a call draws; no two draws are equal.
MutUuid4(caller, n) == <<"uuid", n>>
Uuid4(caller, n) == <<"uuid", caller, n>>

\* documents.py line 85 / vectorstore.py line 140: the id of the document,
\* the first value the call draws.
MutDocumentId(caller) == <<"uuid", "doc">>
DocumentId(caller) == Uuid4(caller, 0)

\* client.upsert(points): each point is stored under its id, replacing a
\* point that has the same id.
MutUpsertPoints(st, points) ==
    [id \in {points[i].id : i \in 1..Len(points)} |->
        points[Max({i \in 1..Len(points) : points[i].id = id})].payload]
UpsertPoints(st, points) ==
    [id \in DOMAIN st \cup {points[i].id : i \in 1..Len(points)} |->
        IF \E i \in 1..Len(points) : points[i].id = id
        THEN points[Max({i \in 1..Len(points) : points[i].id = id})].payload
        ELSE st[id]]

\* client.delete(points_selector=Filter(...)).
DeletePoints(st, filter) ==
    [id \in {i \in DOMAIN st : ~Matches(st[i], filter)} |-> st[id]]

\* The collection as payload -> number of points carrying it.
BagOf(st) ==
    [p \in {st[id] : id \in DOMAIN st} |->
        Cardinality({id \in DOMAIN st : st[id] = p})]

\* add_text lines 111-123: one PointStruct per chunk, ids drawn in order.
PointsOf(caller, drawn, cs, metadata) ==
    [i \in 1..Len(cs) |->
        [id |-> Uuid4(caller, drawn + i), payload |-> Payload(cs[i], metadata)]]

\* `x or ""` on an Optional[str] form field, None being the empty set.
OrEmpty(opt) == IF opt = {} THEN "" ELSE CHOOSE x \in opt : TRUE

\* file.filename.lower().endswith(".pdf"), on the file names of the model.
PdfNames == {"akte.pdf", "befund.PDF"}
EndsWithPdf(filename) == filename \in PdfNames

\* documents.py line 78: `not markdown_text.strip()`
MutNoText(markdown) == markdown = <<>>
NoText(markdown) == Strip(markdown) = <<>>

\* documents.py lines 86-93.
MutMetadata(caller, form, total_pages) ==
    [source        |-> form.filename,
     document_id   |-> DocumentId(caller),
     document_type |-> form.document_type,
     patient_id    |-> OrEmpty(form.patient_id),
     case_number   |-> OrEmpty(form.case_number),
     total_pages   |-> 0]
Metadata(caller, form, total_pages) ==
    [source        |-> form.filename,
     document_id   |-> DocumentId(caller),
     document_type |-> form.document_type,
     patient_id    |-> OrEmpty(form.patient_id),
     case_number   |-> OrEmpty(form.case_number),
     total_pages   |-> total_pages]

\* {**metadata, "page": page_num}
MutWithPage(metadata, page_num) ==
    [k \in DOMAIN metadata \cup {"page"} |->
        IF k = "page" THEN 0 ELSE metadata[k]]
WithPage(metadata, page_num) ==
    [k \in DOMAIN metadata \cup {"page"} |->
        IF k = "page" THEN page_num ELSE metadata[k]]

\* vectorstore.py lines 135-142.
TranscriptMetadata(caller, transcript, patient_id) ==
    [source        |-> transcript.filename,
     document_type |-> "transcript",
     patient_id    |-> patient_id,
     duration      |-> transcript.duration,
     document_id   |-> DocumentId(caller),
     page          |-> 0]

-----------------------------------------------------------------------------
(* Inputs of the ingestion specification *)

\* A text of 120 characters that is not blank and of which every candidate
\* chunk is shorter than MinChunkLen.
Sparse == Run(10) \o [i \in 1..100 |-> " "] \o Run(10)

DocText == Run(52) \o <<".", " ">> \o Run(52)

PageTexts == { <<" ">>, Run(2), DocText }
UploadTexts == PageTexts \cup { <<>>, Sparse }

\* self._chunker.chunk(text), tabulated for the texts of the model.
UploadChunks == [t \in UploadTexts |-> ChunkOf(t, IndexConfig)]

Files ==
    { [filename |-> "akte.pdf",   size |-> 1],
      [filename |-> "befund.PDF", size |-> 1],
      [filename |-> "notiz.txt",  size |-> 1],
      [filename |-> "akte.pdf",   size |-> 0] }

\* The form of the upload a caller makes.
Forms(caller) ==
    { [filename |-> f.filename, size |-> f.size,
       document_type |-> "gerichtsakte",
       patient_id |-> IF caller = "u1" THEN {"p1"} ELSE {},
       case_number |-> IF caller = "u1" THEN {} ELSE {"az7"}] : f \in Files }

\* The JSON the OCR collaborator answers with: pages are numbered from 1,
\* total_pages is their number.
PageTextLists ==
    { <<>>,
      << <<" ">> >>,
      << DocText >>,
      << Run(2), DocText >>,
      << <<" ">>, <<" ">> >>,
      << DocText, <<" ">>, Run(2) >> }
PageLists ==
    { [i \in 1..Len(ts) |-> [page |-> i, text |-> ts[i]]] :
        ts \in PageTextLists }
OcrResults ==
    { [markdown |-> m, pages |-> pl, total_pages |-> Len(pl)] :
        m \in { <<>>, <<" ">>, DocText }, pl \in PageLists }

\* The transcripts audio.py hands to add_transcript (patient_id is set).
Transcripts ==
    { [text |-> t, filename |-> "dictat.wav", duration |-> 12] :
        t \in { <<>>, Run(2), Sparse } }

-----------------------------------------------------------------------------
(* The ingestion calls, one step per await *)

\* An ingestion call that has not been made.
NotCalled ==
    [pc |-> "idle", kind |-> "none", form |-> NoCall, ocr |-> NoCall,
     metadata |-> NoCall, k |-> 0, chunks_indexed |-> 0, cur |-> NoCall,
     calls |-> <<>>, drawn |-> 0, resp |-> NoCall]

\* The record of one add_text call for the history `calls`.
AddTextCall(page_text, metadata) ==
    [text |-> page_text, metadata |-> metadata,
     embeds |-> 0, upserts |-> 0, points |-> <<>>, returned |-> None]

\* documents.py lines 118-126.
Success(r) ==
    [r EXCEPT !.pc = "done",
              !.resp = [status |-> 200, document_id |-> r.metadata.document_id,
                        filename |-> r.form.filename,
                        total_pages |-> r.ocr.total_pages,
                        chunks_indexed |-> r.chunks_indexed,
                        characters_extracted |-> Len(r.ocr.markdown),
                        metadata |-> r.metadata]]

\* An exception leaves add_text: upload_document turns it into HTTP 500
\* (lines 128-132), add_transcript lets it through to its caller (no status).
Raised(r) ==
    [r EXCEPT !.pc = "done",
              !.calls = Append(r.calls, r.cur),
              !.cur = NoCall,
              !.resp = IF r.kind = "upload" THEN [status |-> 500]
                       ELSE [status |-> None]]

RECURSIVE RunPages(_)
RECURSIVE Returned(_, _)

\* vectorstore.add_text(text, metadata) up to its first await: lines 103-108.
EnterAddText(r, page_text, metadata) ==
    LET call == AddTextCall(page_text, metadata)
    IN  IF UploadChunks[page_text] = <<>>
        THEN Returned([r EXCEPT !.cur = [call EXCEPT !.returned = 0]], 0)
        ELSE [r EXCEPT !.pc = "embed", !.cur = call]

\* add_text has returned `count` to its caller: documents.py lines 107 and
\* 114, vectorstore.py line 143.
Returned(r, count) ==
    LET done == [r EXCEPT !.calls = Append(r.calls, r.cur), !.cur = NoCall]
    IN  IF r.kind = "transcript"
        THEN [done EXCEPT !.pc = "done",
                          !.resp = [status |-> 200, returned |-> count]]
        ELSE IF r.ocr.pages # <<>>
        THEN RunPages([done EXCEPT !.chunks_indexed = @ + count, !.k = @ + 1])
        ELSE Success([done EXCEPT !.chunks_indexed = count])

\* The for-loop of documents.py lines 98-107 from the k-th page on, up to
\* the next await or the return.
RunPages(r) ==
    IF r.k > Len(r.ocr.pages) THEN Success(r)
    ELSE LET page_info == r.ocr.pages[r.k]
         IN  IF Strip(page_info.text) # <<>>
             THEN EnterAddText(r, page_info.text,
                               WithPage(r.metadata, page_info.page))
             ELSE RunPages([r EXCEPT !.k = @ + 1])

InitUpload ==
    /\ ChunkIdle
    /\ IndexIdle
    /\ ChatIdle
    /\ store = << >>
    /\ ups = [u \in Callers |-> NotCalled]

\* upload_document lines 37-61: the checks on the file, then the POST to
\* the OCR service.
UploadCall(u, form) ==
    /\ ups[u].pc = "idle"
    /\ ups' = [ups EXCEPT ![u] =
                 IF form.size = 0 \/ ~EndsWithPdf(form.filename)
                 THEN [@ EXCEPT !.pc = "done", !.kind = "upload",
                                !.form = form, !.resp = [status |-> 400]]
                 ELSE [@ EXCEPT !.pc = "ocr", !.kind = "upload",
                                !.form = form]]
    /\ UNCHANGED <<store, chunkVars, indexVars, chatVars>>

\* Lines 62-76: the OCR service failed.
UploadOcrFailed(u) ==
    /\ ups[u].pc = "ocr"
    /\ ups' = [ups EXCEPT ![u] = [@ EXCEPT !.pc = "done",
                                           !.resp = [status |-> 502]]]
    /\ UNCHANGED <<store, chunkVars, indexVars, chatVars>>

\* Lines 62-114: the OCR service answered; 422 on blank text, else the
\* metadata and the page loop up to the first await of add_text.
UploadOcr(u, ocr_result) ==
    /\ ups[u].pc = "ocr"
    /\ ups' = [ups EXCEPT ![u] =
                 IF NoText(ocr_result.markdown)
                 THEN [@ EXCEPT !.pc = "done", !.ocr = ocr_result,
                                !.resp = [status |-> 422]]
                 ELSE LET r == [@ EXCEPT !.ocr = ocr_result, !.k = 1,
                                   !.metadata = Metadata(u, ups[u].form,
                                                   ocr_result.total_pages)]
                      IN  IF ocr_result.pages # <<>>
                          THEN RunPages(r)
                          ELSE EnterAddText(r, ocr_result.markdown,
                                            WithPage(r.metadata, 0))]
    /\ UNCHANGED <<store, chunkVars, indexVars, chatVars>>

\* add_transcript(transcript, patient_id), lines 132-143, up to the first
\* await of add_text.
AddTranscript(u, transcript, patient_id) ==
    /\ ups[u].pc = "idle"
    /\ ups' = [ups EXCEPT ![u] =
                 LET md == TranscriptMetadata(u, transcript, patient_id)
                 IN  EnterAddText([@ EXCEPT !.kind = "transcript",
                                            !.metadata = md],
                                  transcript.text, md)]
    /\ UNCHANGED <<store, chunkVars, indexVars, chatVars>>

\* add_text line 108 failed: embed_documents raised.
AddTextEmbedFailed(u) ==
    /\ ups[u].pc = "embed"
    /\ ups' = [ups EXCEPT ![u] = Raised([@ EXCEPT !.cur.embeds = @ + 1])]
    /\ UNCHANGED <<store, chunkVars, indexVars, chatVars>>

\* add_text lines 108-125: the embeddings came back; the points are built
\* and the upsert is sent.
AddTextEmbed(u) ==
    /\ ups[u].pc = "embed"
    /\ ups' = [ups EXCEPT ![u] =
                 [@ EXCEPT !.pc = "upsert",
                           !.cur.embeds = @ + 1,
                           !.cur.points = PointsOf(u, ups[u].drawn,
                                                   UploadChunks[ups[u].cur.text],
                                                   ups[u].cur.metadata),
                           !.drawn = @ + Len(UploadChunks[ups[u].cur.text])]]
    /\ UNCHANGED <<store, chunkVars, indexVars, chatVars>>

\* add_text lines 125-128 failed: the upsert raised, nothing was stored.
AddTextUpsertFailed(u) ==
    /\ ups[u].pc = "upsert"
    /\ ups' = [ups EXCEPT ![u] = Raised([@ EXCEPT !.cur.upserts = @ + 1])]
    /\ UNCHANGED <<store, chunkVars, indexVars, chatVars>>

\* add_text lines 125-130: the upsert is done and add_text returns
\* len(points); its caller runs on to its next await or its return.
AddTextUpsert(u) ==
    /\ ups[u].pc = "upsert"
    /\ store' = UpsertPoints(store, ups[u].cur.points)
    /\ ups' = [ups EXCEPT ![u] =
                 Returned([@ EXCEPT !.cur.upserts = @ + 1,
                                    !.cur.returned = Len(ups[u].cur.points)],
                          Len(ups[u].cur.points))]
    /\ UNCHANGED <<chunkVars, indexVars, chatVars>>

\* delete_document(id), lines 237-267, on the collection by point.
DeleteDocument(id) ==
    /\ store' = DeletePoints(store, DocFilter(id))
    /\ UNCHANGED <<ups, chunkVars, indexVars, chatVars>>

NextUpload ==
    \/ \E u \in Callers : \E form \in Forms(u) : UploadCall(u, form)
    \/ \E u \in Callers : UploadOcrFailed(u)
    \/ \E u \in Callers, ocr_result \in OcrResults : UploadOcr(u, ocr_result)
    \/ \E u \in Callers, transcript \in Transcripts :
          AddTranscript(u, transcript, "p1")
    \/ \E u \in Callers : AddTextEmbedFailed(u)
    \/ \E u \in Callers : AddTextEmbed(u)
    \/ \E u \in Callers : AddTextUpsertFailed(u)
    \/ \E u \in Callers : AddTextUpsert(u)
    \/ \E u \in Callers : DeleteDocument(DocumentId(u))

SpecUpload == InitUpload /\ [][NextUpload]_vars

-----------------------------------------------------------------------------
(* Properties of the ingestion calls *)

\* The points the collection holds under the document id of a call.
PointsUnder(u) ==
    {id \in DOMAIN store : Matches(store[id], DocFilter(DocumentId(u)))}

\* The ids of the points the add_text calls of u have upserted.
Upserted(u) ==
    UNION { {c.points[i].id : i \in 1..Len(c.points)} :
              c \in {ups[u].calls[j] : j \in {k \in 1..Len(ups[u].calls) :
                                               ups[u].calls[k].upserts = 1
                                               /\ ups[u].calls[k].returned # None}} }

UploadReturned(u) == ups[u].kind = "upload" /\ ups[u].pc = "done"

\* C11: when upload_document has returned an error, the collection holds no
\* point created by that call.
C11_FailedUploadLeavesNothing ==
    \A u \in Callers :
        (UploadReturned(u) /\ ups[u].resp.status # 200) => PointsUnder(u) = {}

\* C12: when the OCR service answers with blank document text, the upload
\* ends with HTTP 422, has made no add_text call and the collection is as
\* it was.
C12_BlankTextIsUnprocessable ==
    [][\A u \in Callers :
         (ups[u].pc = "ocr" /\ ups'[u].ocr # NoCall
              /\ Strip(ups'[u].ocr.markdown) = <<>>)
           => /\ ups'[u].pc = "done"
              /\ ups'[u].resp = [status |-> 422]
              /\ ups'[u].calls = <<>>
              /\ ups'[u].cur = NoCall
              /\ store' = store]_vars

\* C12 witness: a 422 for an OCR result whose pages hold text.
C12_Witness ==
    \E u \in Callers :
        /\ UploadReturned(u)
        /\ ups[u].resp.status = 422
        /\ \E i \in 1..Len(ups[u].ocr.pages) :
              Strip(ups[u].ocr.pages[i].text) # <<>>

\* The document-level fields of a payload.
DocFields == {"source", "document_type", "patient_id", "case_number",
              "total_pages"}

SameDocFields(p, q) ==
    \A f \in DocFields :
        /\ (f \in DOMAIN p) = (f \in DOMAIN q)
        /\ f \in DOMAIN p => p[f] = q[f]

\* C13: any two points with the same document_id carry identical
\* document-level fields; every add_text call of an ingestion call carries
\* the one document_id of that call, and no two ingestion calls share one.
C13_MetadataInvariant ==
    /\ \A i, j \in DOMAIN store :
          store[i].document_id = store[j].document_id
              => SameDocFields(store[i], store[j])
    /\ \A u \in Callers :
          /\ \A k \in 1..Len(ups[u].calls) :
                ups[u].calls[k].metadata.document_id
                    = ups[u].metadata.document_id
          /\ \A id \in Upserted(u) \cap DOMAIN store :
                store[id].document_id = ups[u].metadata.document_id
    /\ \A u, v \in Callers :
          (u # v /\ ups[u].metadata # NoCall /\ ups[v].metadata # NoCall)
              => ups[u].metadata.document_id # ups[v].metadata.document_id

\* C13 witness: the collection holds points of two pages of an upload and
\* points of another ingestion call.
C13_Witness ==
    \E u, v \in Callers :
        /\ u # v
        /\ ups[u].kind = "upload"
        /\ \E i, j \in PointsUnder(u) : store[i].page # store[j].page
        /\ PointsUnder(v) # {}

\* An upload that got past the OCR step with document text.
Indexing(u) == ups[u].kind = "upload" /\ ups[u].metadata # NoCall

\* The add_text calls u has issued so far, as (text, page).
Issued(u) ==
    LET all == IF ups[u].cur = NoCall THEN ups[u].calls
               ELSE Append(ups[u].calls, ups[u].cur)
    IN  [i \in 1..Len(all) |->
            [text |-> all[i].text, page |-> all[i].metadata.page]]

IsPrefix(a, b) == Len(a) <= Len(b) /\ \A i \in 1..Len(a) : a[i] = b[i]

\* Every point an add_text call of u created has the page of that call.
PointsCarryPage(u) ==
    \A k \in 1..Len(ups[u].calls) :
        \A i \in 1..Len(ups[u].calls[k].points) :
            LET pt == ups[u].calls[k].points[i]
            IN  /\ pt.payload.page = ups[u].calls[k].metadata.page
                /\ pt.id \in DOMAIN store
                      => store[pt.id].page = ups[u].calls[k].metadata.page

\* C14 as stated: with a non-empty page list a successful upload has issued
\* one add_text call per page, in page order, with that page's number; with
\* an empty page list one call over the document text with page 0.
C14_OneCallPerPage ==
    \A u \in Callers :
        (Indexing(u) /\ ups[u].resp # NoCall /\ ups[u].resp.status = 200) =>
            /\ Issued(u) = IF ups[u].ocr.pages # <<>> THEN ups[u].ocr.pages
                           ELSE <<[text |-> ups[u].ocr.markdown, page |-> 0]>>
            /\ PointsCarryPage(u)

\* C14 amended: the calls are those of the pages whose text is not blank, in
\* page order, each with its page's number, and every point of a call has
\* that page; with an empty page list one call over the document text with
\* page 0.  A call in progress or failed has issued a prefix of them.
C14_OneCallPerNonBlankPage ==
    \A u \in Callers :
        Indexing(u) =>
            LET expected ==
                  IF ups[u].ocr.pages # <<>>
                  THEN SelectSeq(ups[u].ocr.pages,
                                 LAMBDA pg : Strip(pg.text) # <<>>)
                  ELSE <<[text |-> ups[u].ocr.markdown, page |-> 0]>>
            IN  /\ IsPrefix(Issued(u), expected)
                /\ (ups[u].resp # NoCall /\ ups[u].resp.status = 200)
                       => Issued(u) = expected
                /\ PointsCarryPage(u)

\* C14 witness: a successful upload of three pages of which the second is
\* blank, its points in the collection.
C14_Witness ==
    \E u \in Callers :
        /\ UploadReturned(u)
        /\ ups[u].resp.status = 200
        /\ Len(ups[u].ocr.pages) = 3
        /\ Len(ups[u].calls) = 2
        /\ \E i \in PointsUnder(u) : store[i].page = 3

\* The chunks the pages of an OCR result give, blank pages giving none.
RECURSIVE PageChunks(_)
PageChunks(pages) ==
    IF pages = <<>> THEN 0
    ELSE (IF Strip(Head(pages).text) = <<>> THEN 0
          ELSE Len(UploadChunks[Head(pages).text]))
         + PageChunks(Tail(pages))

\* The entries list_documents() gives for the document of u, on a scan order.
Listed(u, bag, ord) ==
    SelectSeq(ListDocuments(bag, ord),
              LAMBDA d : d.document_id = ups[u].metadata.document_id)

\* A successful upload with a page list whose points are all in the
\* collection.
UploadedPages(u) ==
    /\ UploadReturned(u)
    /\ ups[u].resp.status = 200
    /\ ups[u].ocr.pages # <<>>
    /\ Upserted(u) \subseteq DOMAIN store

AddTextDid(c, before, after) ==
    LET cs  == UploadChunks[c.text]
        ids == {c.points[i].id : i \in 1..Len(c.points)}
    IN  IF cs = <<>>
        THEN /\ c.embeds = 0 /\ c.upserts = 0
             /\ c.points = <<>>
             /\ c.returned = 0
        ELSE IF c.returned = None
        THEN /\ c.embeds = 1 /\ c.upserts <= 1
             /\ after = before
        ELSE /\ c.embeds = 1 /\ c.upserts = 1
             /\ c.returned = Len(cs)
             /\ Len(c.points) = Len(cs)
             /\ Cardinality(ids) = Len(cs)
             /\ ids \cap DOMAIN before = {}
             /\ DOMAIN after = DOMAIN before \cup ids
             /\ \A id \in DOMAIN before : after[id] = before[id]
             /\ \A i \in 1..Len(cs) :
                   /\ after[c.points[i].id] = c.points[i].payload
                   /\ DOMAIN c.points[i].payload
                          = DOMAIN c.metadata \cup {"text"}
                   /\ c.points[i].payload.text = cs[i]
                   /\ \A k \in DOMAIN c.metadata :
                         c.points[i].payload[k] = c.metadata[k]

\* C16: every add_text call that ends embeds all chunks in one call and
\* upserts once exactly len(chunk(text)) new points, each under a fresh id
\* with the metadata entries plus its chunk as text, and returns that
\* number; with no chunk it returns 0 and calls neither the embedder nor the
\* vector database.
C16_AddTextOnePointPerChunk ==
    [][\A u \in Callers :
         \A k \in (Len(ups[u].calls) + 1)..Len(ups'[u].calls) :
             AddTextDid(ups'[u].calls[k], store, store')]_vars

\* C16 witness: one call has stored two chunks, another call on a text that
\* is not blank has returned 0.
C16_Witness ==
    \E u, v \in Callers :
        /\ \E k \in 1..Len(ups[u].calls) :
              /\ ups[u].calls[k].returned = 2
              /\ \A i \in 1..2 : ups[u].calls[k].points[i].id \in DOMAIN store
        /\ \E k \in 1..Len(ups[v].calls) :
              /\ ups[v].calls[k].returned = 0
              /\ Strip(ups[v].calls[k].text) # <<>>

\* The payloads an ingestion call creates when it runs alone and succeeds.
AlonePayloads(u) ==
    LET r == ups[u]
        of(txt, md) == {Payload(UploadChunks[txt][i], md) :
                          i \in 1..Len(UploadChunks[txt])}
    IN  IF r.kind = "transcript" THEN of(r.calls[1].text, r.metadata)
        ELSE IF r.ocr.pages = <<>>
        THEN of(r.ocr.markdown, WithPage(r.metadata, 0))
        ELSE UNION { of(r.ocr.pages[i].text,
                        WithPage(r.metadata, r.ocr.pages[i].page)) :
                       i \in {j \in 1..Len(r.ocr.pages) :
                                Strip(r.ocr.pages[j].text) # <<>>} }

\* The number of chunks a finished call reported.
Reported(u) ==
    IF ups[u].kind = "upload" THEN ups[u].resp.chunks_indexed
    ELSE ups[u].resp.returned

\* What the collection holds of the calls: points the calls created, as
\* created; of a successful call of which nothing was deleted, exactly the
\* points it creates alone, as many as it reported.
UnionOfCalls ==
    /\ \A id \in DOMAIN store :
          \E u \in Callers :
              \E k \in 1..Len(ups[u].calls) :
                  \E i \in 1..Len(ups[u].calls[k].points) :
                      /\ ups[u].calls[k].points[i].id = id
                      /\ ups[u].calls[k].points[i].payload = store[id]
                      /\ store[id].document_id = ups[u].metadata.document_id
    /\ \A u \in Callers :
          (ups[u].pc = "done" /\ ups[u].resp.status = 200
               /\ Upserted(u) \subseteq DOMAIN store) =>
              /\ PointsUnder(u) = Upserted(u)
              /\ {store[id] : id \in PointsUnder(u)} = AlonePayloads(u)
              /\ Cardinality(PointsUnder(u)) = Cardinality(AlonePayloads(u))
              /\ Reported(u) = Cardinality(PointsUnder(u))

\* A step of an ingestion call leaves every stored point in place and as
\* it was.
NothingOverwritten ==
    ups' # ups =>
        \A id \in DOMAIN store : id \in DOMAIN store' /\ store'[id] = store[id]

\* C19: in every interleaving of the add_text steps of two ingestion calls
\* the collection holds the union of the points each call creates alone; no
\* step of a call overwrites, removes or relabels a stored point, and each
\* call reports the number of points stored under its document_id.
C19_ConcurrentIndexing ==
    []UnionOfCalls /\ [][NothingOverwritten]_vars

\* C19 witness: two uploads in the middle of their page loops, each with
\* the points of its first page stored and the upsert of a later page sent.
C19_Witness ==
    \A u \in Callers :
        /\ ups[u].kind = "upload"
        /\ ups[u].pc = "upsert"
        /\ Len(ups[u].calls) = 1
        /\ PointsUnder(u) = Upserted(u)
        /\ PointsUnder(u) # {}

-----------------------------------------------------------------------------
(* Properties of search and list_documents *)

\* C17: search returns at most top_k results in descending score order;
\* every result is made of a stored point whose payload has the filter's
\* value for every filter key, has exactly the keys text, score and
\* metadata, and its metadata is that payload without the text key.
C17_SearchContract ==
    last.op = "search" =>
        LET r == last.results
        IN  /\ Len(r) <= last.top_k
            /\ \A i \in 1..(Len(r) - 1) : r[i].score >= r[i + 1].score
            /\ \A i \in 1..Len(r) :
                  /\ DOMAIN r[i] = {"text", "score", "metadata"}
                  /\ "text" \notin DOMAIN r[i].metadata
                  /\ \A k \in DOMAIN last.filters :
                        /\ k \in DOMAIN r[i].metadata
                        /\ r[i].metadata[k] = last.filters[k]
                  /\ \E p \in DOMAIN index :
                        /\ p.text = r[i].text
                        /\ DOMAIN r[i].metadata = DOMAIN p \ {"text"}
                        /\ \A k \in DOMAIN r[i].metadata :
                              r[i].metadata[k] = p[k]
                        /\ Cardinality({j \in 1..Len(r) :
                                          /\ r[j].text = p.text
                                          /\ r[j].metadata = r[i].metadata})
                              <= index[p]

\* C17 witness: a search with a two-key filter that filled top_k with
\* results of different scores while the collection held other points.
C17_Witness ==
    /\ last.op = "search"
    /\ Cardinality(DOMAIN last.filters) = 2
    /\ Len(last.results) = 5
    /\ last.results[1].score > last.results[5].score
    /\ \E p \in DOMAIN index :
          \E k \in DOMAIN last.filters : p[k] # last.filters[k]

\* C18: list_documents() on an unchanged collection gives exactly one
\* summary per distinct document_id (points without one under "unknown"),
\* whose chunks is the number of points with that id, the counts summing to
\* the number of points, and whose metadata fields are those of the first
\* point of the scan with that id.
C18_ListAggregatesEveryPoint ==
    last.op = "list" =>
        LET docs == last.documents
            IdOf(p) == Get(p, "document_id", "unknown")
            first(id) == last.scan[Min({k \in 1..Len(last.scan) :
                                          IdOf(last.scan[k]) = id})]
        IN  /\ \A i, j \in 1..Len(docs) :
                  docs[i].document_id = docs[j].document_id => i = j
            /\ {docs[i].document_id : i \in 1..Len(docs)}
                  = {IdOf(p) : p \in DOMAIN index}
            /\ \A i \in 1..Len(docs) :
                  /\ docs[i].chunks
                        = SumOver(index, {p \in DOMAIN index :
                                            IdOf(p) = docs[i].document_id})
                  /\ \A f \in DocFields \ {"total_pages"} :
                        docs[i][f] = Get(first(docs[i].document_id), f, "")
                  /\ docs[i].total_pages
                        = Get(first(docs[i].document_id), "total_pages", 0)
            /\ SumOver([i \in 1..Len(docs) |-> docs[i].chunks], 1..Len(docs))
                  = TotalPoints(index)

\* C18 witness: a listing of two documents, one of them with points on two
\* pages that span more than one scroll batch.
C18_Witness ==
    /\ last.op = "list"
    /\ Len(last.documents) = 2
    /\ \E i \in 1..2 : last.documents[i].chunks > BatchSize
    /\ \E p, q \in DOMAIN index :
          p.document_id = q.document_id /\ p.page # q.page

-----------------------------------------------------------------------------
(* Properties of retrieval filtering, message assembly and streaming *)

\* The index in `results` of the n-th result whose score reaches the
\* threshold.
NthKept(results, n) ==
    LET kept == {i \in 1..Len(results) : results[i].score >= SimilarityThreshold}
    IN  CHOOSE i \in kept : Cardinality({j \in kept : j <= i}) = n

\* The n-th context part of the joined context.
PartOf(c, n) == c[2 * n - 1]

\* C21: when search returned, the kept results are exactly the results with
\* score >= threshold (a score equal to the threshold is kept); the context
\* has one part and the sources one citation {source, page, score} per kept
\* result, in result order, so there are as many parts as citations.
C21_FilterByRelevance ==
    search.op = "returned" =>
        LET results == search.results
            k == Cardinality({i \in 1..Len(results) :
                                 results[i].score >= SimilarityThreshold})
        IN  /\ Len(sources) = k
            /\ Len(context) = IF k = 0 THEN 0 ELSE 2 * k - 1
            /\ \A n \in 1..k :
                  LET r == results[NthKept(results, n)] IN
                  /\ sources[n] = [source |-> r.metadata.source,
                                   page   |-> r.metadata.page,
                                   score  |-> r.score]
                  /\ PartOf(context, n).text = r.text
                  /\ PartOf(context, n).source = r.metadata.source
                  /\ PartOf(context, n).page = r.metadata.page
                  /\ PartOf(context, n).relevanz = Hundredths(r.score)
            /\ \A n \in 1..(k - 1) : context[2 * n] = Lit("\n\n---\n\n")

C21_Witness ==
    /\ search.op = "returned"
    /\ Len(search.results) = 2
    /\ search.results[1].score = SimilarityThreshold
    /\ search.results[2].score < SimilarityThreshold
    /\ Len(sources) = 1
    /\ sources[1].score = SimilarityThreshold
    /\ Len(context) = 1

\* The lines of the backend's response body, none without a response.
BackendLines ==
    IF backend # NoCall /\ backend.kind = "response" THEN backend.lines ELSE <<>>

\* C22: when a streaming request is done, the caller has received the
\* backend's lines that start with "data: ", unmodified and in order, then the
\* sentinel data: [DONE], and nothing else; the sentinel is the last event
\* and occurs exactly once.
C22_StreamingRelay ==
    (hpc = "done" /\ body.stream /\ backend # NoCall) =>
        LET ev   == resp.events
            data == SelectSeq(BackendLines, StartsWithData)
        IN  /\ Len(ev) = Len(data) + 1
            /\ \A i \in 1..Len(data) : ev[i] = [event |-> data[i]]
            /\ ev[Len(ev)] = DoneEvent
            /\ Cardinality({i \in 1..Len(ev) : ev[i] = DoneEvent}) = 1

\* C25: every request sent to the backend starts with exactly one system
\* message, whose content is the system instructions around the context,
\* followed by every incoming message of another role in the original
\* order with role and content unchanged; no caller-supplied system message
\* is forwarded.
C25_MessageAssembly ==
    \A c \in 1..Len(llm_calls) :
        LET sent  == llm_calls[c].messages
            other == {i \in 1..Len(body.messages) :
                         body.messages[i].role # "system"}
            nth(n) == CHOOSE i \in other : Cardinality({j \in other : j <= i}) = n
        IN  /\ Len(sent) = 1 + Cardinality(other)
            /\ sent[1].role = "system"
            /\ sent[1].content =
                  SystemContent(IF context = <<>> THEN NoDocumentsMarker ELSE context)
            /\ \A n \in 1..Cardinality(other) :
                  /\ sent[n + 1].role = body.messages[nth(n)].role
                  /\ sent[n + 1].content = body.messages[nth(n)].content
            /\ \A n \in 2..Len(sent) : sent[n].role # "system"

C25_Witness ==
    /\ Len(llm_calls) = 1
    /\ Len(body.messages) = 2
    /\ body.messages[1].role = "system"
    /\ body.messages[2].role = "user"
    /\ Len(llm_calls[1].messages) = 2
    /\ llm_calls[1].messages[1].content # body.messages[1].content

\* C27: search returns the results in descending score order, so the kept
\* results are the first k results, the context parts carry the citation
\* numbers 1..k without a gap, and the i-th entry of the sources is the result
\* cited as number i.
C27_CitationNumbering ==
    search.op = "returned" =>
        LET results == search.results
            k == Len(sources)
        IN  /\ \A i \in 1..Len(results) :
                  (results[i].score >= SimilarityThreshold) <=> (i <= k)
            /\ \A i \in 1..k :
                  /\ 2 * i - 1 <= Len(context)
                  /\ PartOf(context, i).quelle = i
                  /\ PartOf(context, i).source = sources[i].source
                  /\ PartOf(context, i).page = sources[i].page
                  /\ sources[i].score = results[i].score

C27_Witness ==
    /\ search.op = "returned"
    /\ Len(search.results) = 2
    /\ Len(sources) = 2
    /\ PartOf(context, 2).quelle = 2
    /\ search.results[1].score > search.results[2].score

\* C28: the temperature and max_tokens of every request sent to the backend
\* are the caller's values, 0 included; the configured default is used only
\* when the caller supplied none.
C28_SamplingParametersForwarded ==
    \A c \in 1..Len(llm_calls) :
        /\ llm_calls[c].temperature =
              IF body.temperature = None THEN LlmTemperature ELSE body.temperature
        /\ llm_calls[c].max_tokens =
              IF body.max_tokens = None THEN LlmMaxTokens ELSE body.max_tokens

\* C29: a request with at least one message of role "user" is never answered
\* with HTTP 400, whatever the content of the message.
C29_UserMessageNeverRejected ==
    (\E i \in 1..Len(body.messages) : body.messages[i].role = "user")
        => resp # [status |-> 400]

-----------------------------------------------------------------------------
(* Properties of the split rule and of the returned chunks *)

\* The positions after `from` at which an occurrence of `sep` begins that
\* lies inside [from, to).
Occurrences(s, sep, from, to) ==
    {i \in (from + 1)..(to - Len(sep)) :
        \A j \in 1..Len(sep) : s[i + j] = sep[j]}

\* The split position the rule prescribes for the window [from, to).
RuleSplit(s, from, to) ==
    LET having == {k \in 1..Len(Separators) :
                      Occurrences(s, Separators[k], from, to) # {}}
    IN  IF having = {} THEN to
        ELSE LET sep == Separators[Min(having)]
             IN  Max(Occurrences(s, sep, from, to)) + Len(sep)

\* The windows that were not the final one: they end before the text does.
NonFinal(w) == w.to < Len(text)

\* C23: every non-final window [start, start + chunk_size) was split at the
\* end of the right-most occurrence, inside the window and beginning after
\* start, of the first separator of the priority list that has such an
\* occurrence, and at start + chunk_size when no separator has one; the split
\* position is > start and <= start + chunk_size.
C23_SplitRule ==
    \A i \in 1..Len(windows) :
        LET w == windows[i] IN
        NonFinal(w) =>
            /\ w.to = RuleSplit(text, w.from, w.from + cfg.chunk_size)
            /\ w.to > w.from
            /\ w.to <= w.from + cfg.chunk_size

C23_Witness ==
    \E i \in 1..Len(windows) :
        LET w == windows[i] IN
        /\ NonFinal(w)
        /\ w.to < w.from + cfg.chunk_size
        /\ text[w.to] = "\n"
        /\ \E j \in (w.to + 1)..(w.from + cfg.chunk_size) : text[j] = " "

\* C26: when chunk returns, every chunk is a contiguous substring of the
\* stripped input, begins and ends with a character that is not whitespace,
\* and is at most chunk_size long; the chunks are in the order of their
\* start positions.
C26_ChunksAreOrderedSubstrings ==
    cpc = "done" =>
        LET t    == Strip(input)
            kept == SelectSeq(windows, LAMBDA w : w.kept)
        IN  /\ Len(chunks) = Len(kept)
            /\ \A i \in 1..Len(chunks) :
                  /\ 0 <= kept[i].lo /\ kept[i].hi <= Len(t)
                  /\ chunks[i] = Slice(t, kept[i].lo, kept[i].hi)
                  /\ chunks[i] # <<>>
                  /\ chunks[i][1] \notin Whitespace
                  /\ chunks[i][Len(chunks[i])] \notin Whitespace
                  /\ Len(chunks[i]) <= cfg.chunk_size
            /\ \A i \in 1..(Len(chunks) - 1) : kept[i].lo <= kept[i + 1].lo

C26_Witness ==
    /\ cpc = "done"
    /\ Len(chunks) >= 2
    /\ \E i \in 1..Len(windows) :
          /\ windows[i].kept
          /\ windows[i].hi < windows[i].to
    /\ input # Strip(input)

-----------------------------------------------------------------------------
(* Properties of the window between the two awaits of delete_document *)

\* C24: when delete_document(id) has returned, (a) if add_text calls stored
\* points under id between the counting scroll and the delete, the delete
\* removed them too and the returned count is smaller than the number of
\* points removed; (b) the returned count differs from the number removed
\* only in that case; (c) no point with document_id id is left.
C24_CountThenDelete ==
    last.op = "delete" =>
        /\ last.added > 0 =>
              /\ last.removed = last.before + last.added
              /\ last.returned < last.removed
        /\ last.returned # last.removed => last.added > 0
        /\ Matching(index, [document_id |-> last.id]) = {}

\* The same statement for documents the counting scroll covers in full.
CountThenDeleteWithinScrollLimit ==
    (last.op = "delete" /\ last.before <= ScrollLimit) =>
        /\ last.added > 0 =>
              /\ last.removed = last.before + last.added
              /\ last.returned < last.removed
        /\ last.returned # last.removed => last.added > 0
        /\ Matching(index, [document_id |-> last.id]) = {}

DeleteRaceSeen ==
    /\ last.op = "delete"
    /\ last.added > 0
    /\ last.before > 0
    /\ last.returned = last.before

-----------------------------------------------------------------------------
(* Property of a successful upload *)

\* C30: whenever upload_document returns success, its chunks_indexed is at
\* least 1 and the collection then holds at least one point with the
\* returned document_id.
C30_NoEmptySuccess ==
    [][\A u \in Callers :
         (ups[u].pc # "done" /\ ups'[u].pc = "done" /\ ups'[u].kind = "upload"
              /\ ups'[u].resp.status = 200)
           => /\ ups'[u].resp.chunks_indexed >= 1
              /\ \E id \in DOMAIN store' :
                    store'[id].document_id = ups'[u].resp.document_id]_vars

=============================================================================
